---- MODULE Spec2Model ----
(***************************************************************************)
(* Model of scripts/optimize-images.js: the task loop of the async main    *)
(* function, optimizeRasterImages, copyOtherFiles, and the part of the     *)
(* file system, of glob and of the sharp codec that they act on.           *)
(*                                                                         *)
(* A path is a sequence of components; a component is a record             *)
(* [name, ext] (ext = "" for a component without extension).               *)
(***************************************************************************)
EXTENDS Integers, Sequences, FiniteSets, TLC

VARIABLES
  fs,            \* the file system: path -> node
  input,         \* the file system as it was before the first run
  nocase,        \* glob's platform default: TRUE on macOS/Windows
  dirOrder,      \* enumeration order of the directory scan
  run,           \* number of the current invocation of the script
  pc,            \* position of the main function
  taskIdx,       \* index of `task` in the for loop over TASKS
  rasterImages,  \* result of the first globSync of the current task
  otherFiles,    \* result of the second globSync of the current task
  fileIdx,       \* index of inputPath in the loop of the current batch
  totalStats,    \* { processed, copied, errors }
  console,       \* lines printed so far in this run
  writes,        \* toFile / copyFileSync calls that wrote a file in this run
  exitCode,      \* -1 while running, 0 normal end, 1 unhandled rejection
  prevFs,        \* file system at the end of the previous run
  prevStats,     \* totalStats at the end of the previous run
  prevConsole,   \* console at the end of the previous run
  discovered     \* files returned by globSync in this run, in handling order

vars == <<fs, input, nocase, dirOrder, run, pc, taskIdx, rasterImages,
          otherFiles, fileIdx, totalStats, console, writes, exitCode,
          prevFs, prevStats, prevConsole, discovered>>

----------------------------------------------------------------------------
(* Bounds *)
MaxFiles == 2
MaxRuns == 2

----------------------------------------------------------------------------
(* Paths *)
C(n, e) == [name |-> n, ext |-> e]
D(n) == C(n, "")
Up == D("..")

\* variant: the output directories lie inside the input directories
TASKS_Nested ==
  << [inputDir  |-> <<D("src"), D("assets"), D("images")>>,
      outputDir |-> <<D("src"), D("assets"), D("images"), D("dist")>>],
     [inputDir  |-> <<D("demo"), D("assets"), D("images")>>,
      outputDir |-> <<D("demo"), D("assets"), D("images"), D("dist")>>] >>

TASKS ==
  << [inputDir  |-> <<D("src"), D("assets"), D("images")>>,
      outputDir |-> <<D("dist"), D("assets"), D("images")>>],
     [inputDir  |-> <<D("demo"), D("assets"), D("images")>>,
      outputDir |-> <<D("dist"), D("demo"), D("assets"), D("images")>>] >>

SETTINGS ==
  [jpeg |-> [quality |-> 80], png |-> [quality |-> 80],
   webp |-> [quality |-> 75], avif |-> [quality |-> 65]]

RasterExts == {".jpg", ".jpeg", ".png"}
OtherExts == {".svg", ".gif", ".ico"}

ToLowerCase(e) ==
  CASE e = ".JPG" -> ".jpg"
    [] e = ".JPEG" -> ".jpeg"
    [] e = ".PNG" -> ".png"
    [] e = ".SVG" -> ".svg"
    [] OTHER -> e

IsPrefix(p, q) == Len(p) <= Len(q) /\ SubSeq(q, 1, Len(p)) = p

Prefixes(p) == {SubSeq(p, 1, k) : k \in 1..Len(p)}

Dirname(p) == SubSeq(p, 1, Len(p) - 1)

Extname(p) == IF p = <<>> THEN "" ELSE p[Len(p)].ext

RECURSIVE CommonLen(_, _)
CommonLen(p, q) ==
  IF p = <<>> \/ q = <<>> \/ Head(p) # Head(q) THEN 0
  ELSE 1 + CommonLen(Tail(p), Tail(q))

\* path.relative(from, to)
Relative(from, to) ==
  LET k == CommonLen(from, to)
  IN [i \in 1..(Len(from) - k) |-> Up] \o SubSeq(to, k + 1, Len(to))

RECURSIVE Normalize(_, _)
Normalize(done, rest) ==
  IF rest = <<>> THEN done
  ELSE IF Head(rest) = Up /\ done # <<>> /\ done[Len(done)] # Up
       THEN Normalize(Dirname(done), Tail(rest))
       ELSE Normalize(Append(done, Head(rest)), Tail(rest))

\* path.join(a, b)
Join(a, b) == Normalize(<<>>, a \o b)

\* path.parse(p): the fields the script uses
Parse(p) ==
  [dir |-> Dirname(p), name |-> p[Len(p)].name, ext |-> p[Len(p)].ext]

----------------------------------------------------------------------------
(* File system *)
DirNode == [kind |-> "dir", data |-> [fmt |-> "", quality |-> 0, pixels |-> 0], bad |-> 0]
FileNode(d, b) == [kind |-> "file", data |-> d, bad |-> b]

ExistsSync(fsys, p) == p \in DOMAIN fsys

IsDir(fsys, p) == p \in DOMAIN fsys /\ fsys[p].kind = "dir"
IsFile(fsys, p) == p \in DOMAIN fsys /\ fsys[p].kind = "file"

\* fs.ensureDirSync(p) throws when a component of p is a regular file
EnsureDirThrows(fsys, p) == \E q \in Prefixes(p) : IsFile(fsys, q)

EnsureDirSync(fsys, p) ==
  [q \in (DOMAIN fsys) \cup Prefixes(p) |->
     IF q \in DOMAIN fsys THEN fsys[q] ELSE DirNode]

\* writing a file at p fails when its directory is missing or p is a directory
WriteThrows(fsys, p) == ~IsDir(fsys, Dirname(p)) \/ IsDir(fsys, p)

WriteFile(fsys, p, d) ==
  [q \in (DOMAIN fsys) \cup {p} |-> IF q = p THEN FileNode(d, 0) ELSE fsys[q]]

\* variant: the copy is cut short
CopyFileSync_Truncated(fsys, src, dst) ==
  [q \in (DOMAIN fsys) \cup {dst} |->
     IF q = dst THEN [kind |-> "file", data |-> [fsys[src].data EXCEPT !.pixels = 0], bad |-> 0]
     ELSE fsys[q]]

\* fs.copyFileSync(src, dst)
CopyThrows(fsys, src, dst) ==
  ~IsFile(fsys, src) \/ fsys[src].bad # 0 \/ WriteThrows(fsys, dst)

CopyFileSync(fsys, src, dst) == WriteFile(fsys, dst, fsys[src].data)

\* sharp(inputPath).clone().<fmt>(settings).toFile(out); step is the
\* position of the encode in the file's sequence (1 original, 2 webp, 3 avif);
\* a node's field bad names the encode at which the codec rejects the image
\* (for a file that is copied: bad # 0 means the file cannot be read)
Encode(d, fmt, settings) ==
  [fmt |-> fmt, quality |-> settings.quality, pixels |-> d.pixels]

ToFileThrows(fsys, src, step, out) ==
  \/ ~IsFile(fsys, src)
  \/ fsys[src].bad = step
  \/ WriteThrows(fsys, out)

ToFile(fsys, src, fmt, settings, out) ==
  WriteFile(fsys, out, Encode(fsys[src].data, fmt, settings))

----------------------------------------------------------------------------
(* Directory scan *)
\* relative paths that may be present under an input directory, in
\* lexical order
RelFiles ==
  << <<D("a"), C("b", ".JPG")>>,
     <<D("a"), C("b", ".jpg")>>,
     <<D("a"), C("b", ".png")>>,
     <<D("a"), C("b", ".webp"), C("c", ".png")>>,
     <<C("icon", ".svg")>> >>

\* the candidates of the second tree: a/b.jpg and icon.svg
DemoFiles == {2, 5}

Universe ==
  {u \in [task : 1..Len(TASKS), rel : 1..Len(RelFiles)] : u.task = 1 \/ u.rel \in DemoFiles}

AbsPath(u) == TASKS[u.task].inputDir \o RelFiles[u.rel]

Pixels(u) == (u.task - 1) * Len(RelFiles) + u.rel

IsRasterExt(e) == ToLowerCase(e) \in RasterExts

BadChoices(u) == IF IsRasterExt(Extname(AbsPath(u))) THEN 0..3 ELSE 0..1

\* position of p in the enumeration of its directory tree
Rank(p) ==
  LET k == IF \E u \in Universe : AbsPath(u) = p
           THEN (CHOOSE u \in Universe : AbsPath(u) = p).rel
           ELSE 0
  IN IF dirOrder = "asc" THEN k ELSE 0 - k

RECURSIVE SetToSeq(_)
SetToSeq(S) ==
  IF S = {} THEN <<>>
  ELSE LET x == CHOOSE y \in S : \A z \in S : Rank(y) <= Rank(z)
       IN <<x>> \o SetToSeq(S \ {x})

\* the brace pattern *.{e1,e2,e3} against a file name
Matches(p, exts) ==
  IF nocase THEN ToLowerCase(Extname(p)) \in exts ELSE Extname(p) \in exts

\* globSync(`${inputDir}/**/*.{...}`)
GlobSync(fsys, inputDir, exts) ==
  SetToSeq({p \in DOMAIN fsys :
              IsPrefix(inputDir, p) /\ Len(p) > Len(inputDir) /\ Matches(p, exts)})

----------------------------------------------------------------------------
(* Initial states *)
NewStats == [processed |-> 0, copied |-> 0, errors |-> 0]

BuildFs(chosen, bad, dirState) ==
  LET present == {t \in 1..Len(TASKS) : dirState[t] # "missing"}
      blocked == {t \in 1..Len(TASKS) : dirState[t] = "blocked"}
      files == {AbsPath(u) : u \in chosen}
      dirs == UNION {Prefixes(TASKS[t].inputDir) : t \in present}
              \cup UNION {Prefixes(Dirname(f)) : f \in files}
              \cup UNION {Prefixes(Dirname(TASKS[t].outputDir)) : t \in blocked}
      blockers == {TASKS[t].outputDir : t \in blocked}
  IN [p \in dirs \cup files \cup blockers |->
        IF p \in files
        THEN LET u == CHOOSE v \in chosen : AbsPath(v) = p
             IN FileNode([fmt |-> Extname(p), quality |-> 100, pixels |-> Pixels(u)], bad[u])
        ELSE IF p \in blockers
        THEN FileNode([fmt |-> "", quality |-> 100, pixels |-> 0], 0)
        ELSE DirNode]

Init ==
  \E dirState \in [1..Len(TASKS) -> {"missing", "present", "blocked"}] :
  \E chosen \in SUBSET {u \in Universe : dirState[u.task] # "missing"} :
    /\ Cardinality(chosen) <= MaxFiles
    /\ \E bad \in [chosen -> 0..3] :
         /\ \A u \in chosen : bad[u] \in BadChoices(u)
         /\ fs = BuildFs(chosen, bad, dirState)
         /\ input = fs
    /\ nocase \in BOOLEAN
    /\ dirOrder \in {"asc", "desc"}
    /\ run = 1
    /\ pc = "loop"
    /\ taskIdx = 1
    /\ rasterImages = <<>>
    /\ otherFiles = <<>>
    /\ fileIdx = 1
    /\ totalStats = NewStats
    /\ console = <<>>
    /\ writes = <<>>
    /\ exitCode = -1
    /\ prevFs = fs
    /\ prevStats = NewStats
    /\ prevConsole = <<>>
    /\ discovered = <<>>

----------------------------------------------------------------------------
(* Locals of the loops *)
task == TASKS[taskIdx]
Line(k, p) == [kind |-> k, path |-> p]
Found(t, r) == [f \in 1..Len(r) |-> [task |-> t, path |-> r[f]]]

\* variant: processed is counted once per derivative
CountProcessed_PerDerivative(s) == [s EXCEPT !.processed = @ + 3]

CountProcessed(s) == [s EXCEPT !.processed = @ + 1]
CountCopied(s) == [s EXCEPT !.copied = @ + 1]
CountError(s) == [s EXCEPT !.errors = @ + 1]

\* variant: the relative directory is dropped
OutputSubDir_Flat(outputDir, dir) == outputDir

\* path.join(outputDir, dir)
OutputSubDir(outputDir, dir) == Join(outputDir, dir)

\* variant: the extension is left out of the file name
OutputFile_NoExt(outputSubDir, name, extension) == outputSubDir \o <<[name |-> name, ext |-> ""]>>

\* path.join(outputSubDir, `${name}${extension}`)
OutputFile(outputSubDir, name, extension) == Join(outputSubDir, <<C(name, extension)>>)

\* path.join(outputDir, relativePath) of copyOtherFiles
CopyOutputPath(outputDir, relativePath) == Join(outputDir, relativePath)

rasterPath == rasterImages[fileIdx]
rasterRel == Relative(task.inputDir, rasterPath)
rasterSubDir == OutputSubDir(task.outputDir, Parse(rasterRel).dir)
rasterName == Parse(rasterRel).name
extension == ToLowerCase(Extname(rasterPath))

Written(src, out, fmt) == [task |-> taskIdx, src |-> src, out |-> out, fmt |-> fmt]

----------------------------------------------------------------------------
(* Main task loop *)
\* variant: a missing input directory is counted as an error
SkipTask_Counted ==
  /\ pc = "loop"
  /\ taskIdx <= Len(TASKS)
  /\ ~ExistsSync(fs, task.inputDir)
  /\ console' = Append(console, Line("skip", task.inputDir))
  /\ totalStats' = [totalStats EXCEPT !.errors = @ + 1]
  /\ taskIdx' = taskIdx + 1
  /\ UNCHANGED <<fs, input, nocase, dirOrder, run, pc, rasterImages, otherFiles,
                 fileIdx, writes, exitCode, prevFs, prevStats,
                 prevConsole, discovered>>

SkipTask ==
  /\ pc = "loop"
  /\ taskIdx <= Len(TASKS)
  /\ ~ExistsSync(fs, task.inputDir)
  /\ console' = Append(console, Line("skip", task.inputDir))
  /\ taskIdx' = taskIdx + 1
  /\ UNCHANGED <<fs, input, nocase, dirOrder, run, pc, rasterImages, otherFiles,
                 fileIdx, totalStats, writes, exitCode, prevFs, prevStats,
                 prevConsole, discovered>>

BeginTask ==
  /\ pc = "loop"
  /\ taskIdx <= Len(TASKS)
  /\ ExistsSync(fs, task.inputDir)
  /\ IF EnsureDirThrows(fs, task.outputDir)
     THEN \* the exception leaves the async function: unhandled rejection
          /\ pc' = "crashed"
          /\ exitCode' = 1
          /\ console' = Append(console, Line("task", task.inputDir))
          /\ UNCHANGED <<fs, rasterImages, otherFiles, fileIdx, discovered>>
     ELSE LET r == GlobSync(fs, task.inputDir, RasterExts)
              o == GlobSync(fs, task.inputDir, OtherExts)
          IN /\ fs' = EnsureDirSync(fs, task.outputDir)
             /\ rasterImages' = r
             /\ otherFiles' = o
             /\ discovered' = discovered \o Found(taskIdx, r) \o Found(taskIdx, o)
             /\ fileIdx' = 1
             /\ pc' = "prepare"
             /\ console' = Append(console, Line("task", task.inputDir))
             /\ UNCHANGED exitCode
  /\ UNCHANGED <<input, nocase, dirOrder, run, taskIdx, totalStats, writes,
                 prevFs, prevStats, prevConsole>>

Report ==
  /\ pc = "loop"
  /\ taskIdx > Len(TASKS)
  /\ console' = Append(console, Line("report", <<>>))
  /\ pc' = "done"
  /\ exitCode' = 0
  /\ UNCHANGED <<fs, input, nocase, dirOrder, run, taskIdx, rasterImages,
                 otherFiles, fileIdx, totalStats, writes, prevFs, prevStats,
                 prevConsole, discovered>>

----------------------------------------------------------------------------
(* optimizeRasterImages *)
\* variant: one try/catch per encode, the next encode of the file follows
RasterCatch_PerFormat(step) ==
  /\ totalStats' = [totalStats EXCEPT !.errors = @ + 1]
  /\ console' = Append(console, Line("error", rasterPath))
  /\ fileIdx' = IF step \in {1, 2} THEN fileIdx ELSE fileIdx + 1
  /\ pc' = IF step = 1 THEN "webp" ELSE IF step = 2 THEN "avif" ELSE "prepare"

\* catch (error) { stats.errors++; ... } and the next iteration of the loop
RasterCatch(step) ==
  /\ totalStats' = CountError(totalStats)
  /\ console' = Append(console, Line("error", rasterPath))
  /\ fileIdx' = fileIdx + 1
  /\ pc' = "prepare"

PrepareRaster ==
  /\ pc = "prepare"
  /\ fileIdx <= Len(rasterImages)
  /\ IF EnsureDirThrows(fs, rasterSubDir)
     THEN RasterCatch(0) /\ UNCHANGED fs
     ELSE /\ fs' = EnsureDirSync(fs, rasterSubDir)
          /\ pc' = "original"
          /\ UNCHANGED <<totalStats, console, fileIdx>>
  /\ UNCHANGED <<input, nocase, dirOrder, run, taskIdx, rasterImages, otherFiles,
                 writes, exitCode, prevFs, prevStats, prevConsole, discovered>>

EncodeOriginal ==
  /\ pc = "original"
  /\ LET out == OutputFile(rasterSubDir, rasterName, extension)
         fmt == IF extension \in {".jpeg", ".jpg"} THEN "jpeg" ELSE "png"
     IN IF extension \in {".jpeg", ".jpg", ".png"}
        THEN IF ToFileThrows(fs, rasterPath, 1, out)
             THEN RasterCatch(1) /\ UNCHANGED <<fs, writes>>
             ELSE /\ fs' = ToFile(fs, rasterPath, fmt, SETTINGS[fmt], out)
                  /\ writes' = Append(writes, Written(rasterPath, out, "original"))
                  /\ pc' = "webp"
                  /\ UNCHANGED <<totalStats, console, fileIdx>>
        ELSE /\ pc' = "webp"
             /\ UNCHANGED <<fs, writes, totalStats, console, fileIdx>>
  /\ UNCHANGED <<input, nocase, dirOrder, run, taskIdx, rasterImages, otherFiles,
                 exitCode, prevFs, prevStats, prevConsole, discovered>>

EncodeWebp ==
  /\ pc = "webp"
  /\ LET out == OutputFile(rasterSubDir, rasterName, ".webp")
     IN IF ToFileThrows(fs, rasterPath, 2, out)
        THEN RasterCatch(2) /\ UNCHANGED <<fs, writes>>
        ELSE /\ fs' = ToFile(fs, rasterPath, "webp", SETTINGS.webp, out)
             /\ writes' = Append(writes, Written(rasterPath, out, "webp"))
             /\ pc' = "avif"
             /\ UNCHANGED <<totalStats, console, fileIdx>>
  /\ UNCHANGED <<input, nocase, dirOrder, run, taskIdx, rasterImages, otherFiles,
                 exitCode, prevFs, prevStats, prevConsole, discovered>>

EncodeAvif ==
  /\ pc = "avif"
  /\ LET out == OutputFile(rasterSubDir, rasterName, ".avif")
     IN IF ToFileThrows(fs, rasterPath, 3, out)
        THEN RasterCatch(3) /\ UNCHANGED <<fs, writes>>
        ELSE /\ fs' = ToFile(fs, rasterPath, "avif", SETTINGS.avif, out)
             /\ writes' = Append(writes, Written(rasterPath, out, "avif"))
             /\ totalStats' = CountProcessed(totalStats)
             /\ console' = Append(console, Line("optimized", rasterPath))
             /\ fileIdx' = fileIdx + 1
             /\ pc' = "prepare"
  /\ UNCHANGED <<input, nocase, dirOrder, run, taskIdx, rasterImages, otherFiles,
                 exitCode, prevFs, prevStats, prevConsole, discovered>>

\* variant: the call is not awaited, the copies start while files remain
RasterDone_NotAwaited ==
  /\ pc = "prepare"
  /\ pc' = "copy"
  /\ fileIdx' = 1
  /\ UNCHANGED <<fs, input, nocase, dirOrder, run, taskIdx, rasterImages,
                 otherFiles, totalStats, console, writes, exitCode, prevFs,
                 prevStats, prevConsole, discovered>>

\* the raster loop is exhausted: the awaited call returns
RasterDone ==
  /\ pc = "prepare"
  /\ fileIdx > Len(rasterImages)
  /\ pc' = "copy"
  /\ fileIdx' = 1
  /\ UNCHANGED <<fs, input, nocase, dirOrder, run, taskIdx, rasterImages,
                 otherFiles, totalStats, console, writes, exitCode, prevFs,
                 prevStats, prevConsole, discovered>>

----------------------------------------------------------------------------
(* copyOtherFiles *)
CopyFile ==
  /\ pc = "copy"
  /\ fileIdx <= Len(otherFiles)
  /\ LET inputPath == otherFiles[fileIdx]
         relativePath == Relative(task.inputDir, inputPath)
         outputPath == CopyOutputPath(task.outputDir, relativePath)
     IN IF EnsureDirThrows(fs, Dirname(outputPath))
        THEN /\ totalStats' = CountError(totalStats)
             /\ console' = Append(console, Line("error", inputPath))
             /\ UNCHANGED <<fs, writes>>
        ELSE IF CopyThrows(EnsureDirSync(fs, Dirname(outputPath)), inputPath, outputPath)
        THEN /\ fs' = EnsureDirSync(fs, Dirname(outputPath))
             /\ totalStats' = CountError(totalStats)
             /\ console' = Append(console, Line("error", inputPath))
             /\ UNCHANGED writes
        ELSE /\ fs' = CopyFileSync(EnsureDirSync(fs, Dirname(outputPath)), inputPath, outputPath)
             /\ writes' = Append(writes, Written(inputPath, outputPath, "copy"))
             /\ totalStats' = CountCopied(totalStats)
             /\ console' = Append(console, Line("copied", inputPath))
  /\ fileIdx' = fileIdx + 1
  /\ UNCHANGED <<input, nocase, dirOrder, run, pc, taskIdx, rasterImages,
                 otherFiles, exitCode, prevFs, prevStats, prevConsole, discovered>>

\* the copy loop is exhausted: next iteration of the task loop
CopyDone ==
  /\ pc = "copy"
  /\ fileIdx > Len(otherFiles)
  /\ pc' = "loop"
  /\ taskIdx' = taskIdx + 1
  /\ UNCHANGED <<fs, input, nocase, dirOrder, run, rasterImages, otherFiles,
                 fileIdx, totalStats, console, writes, exitCode, prevFs,
                 prevStats, prevConsole, discovered>>

----------------------------------------------------------------------------
(* A new invocation of the script on the file system the last one left *)
Relaunch ==
  /\ pc \in {"done", "crashed"}
  /\ run < MaxRuns
  /\ run' = run + 1
  /\ prevFs' = fs
  /\ prevStats' = totalStats
  /\ prevConsole' = console
  /\ totalStats' = NewStats
  /\ console' = <<>>
  /\ writes' = <<>>
  /\ discovered' = <<>>
  /\ rasterImages' = <<>>
  /\ otherFiles' = <<>>
  /\ fileIdx' = 1
  /\ taskIdx' = 1
  /\ pc' = "loop"
  /\ exitCode' = -1
  /\ UNCHANGED <<fs, input, nocase, dirOrder>>

Next ==
  \/ SkipTask
  \/ BeginTask
  \/ Report
  \/ PrepareRaster
  \/ EncodeOriginal
  \/ EncodeWebp
  \/ EncodeAvif
  \/ RasterDone
  \/ CopyFile
  \/ CopyDone
  \/ Relaunch

Spec == Init /\ [][Next]_vars

----------------------------------------------------------------------------
(* Vocabulary of the properties *)
Ended == pc \in {"done", "crashed"}

\* the lines that count a file: one of Optimized / Copied / Error
Handled == SelectSeq(console, LAMBDA l : l.kind \in {"optimized", "copied", "error"})

CountKind(k) == Len(SelectSeq(console, LAMBDA l : l.kind = k))

IsRaster(d) == ToLowerCase(Extname(d.path)) \in RasterExts

\* path of a discovered file below its task's inputDir
RelOf(d) == SubSeq(d.path, Len(TASKS[d.task].inputDir) + 1, Len(d.path))

FileName(d) == d.path[Len(d.path)]

WritesOf(d) == SelectSeq(writes, LAMBDA w : w.task = d.task /\ w.src = d.path)

FmtsOf(d) == [i \in 1..Len(WritesOf(d)) |-> WritesOf(d)[i].fmt]

LineOf(d) == {l \in {Handled[i] : i \in 1..Len(Handled)} : l.path = d.path}

Files == {discovered[i] : i \in 1..Len(discovered)}

\* the output directory, below the outputDir of task t, of discovered file d
DirIn(t, d) == TASKS[t].outputDir \o Dirname(RelOf(d))

HasThree(t, d, ext) ==
  /\ IsFile(fs, DirIn(t, d) \o <<C(FileName(d).name, ext)>>)
  /\ IsFile(fs, DirIn(t, d) \o <<C(FileName(d).name, ".webp")>>)
  /\ IsFile(fs, DirIn(t, d) \o <<C(FileName(d).name, ".avif")>>)

CleanRun == pc = "done" /\ totalStats.errors = 0

TypeOK ==
  /\ pc \in {"loop", "prepare", "original", "webp", "avif", "copy", "done", "crashed"}
  /\ taskIdx \in 1..(Len(TASKS) + 1)
  /\ run \in 1..MaxRuns
  /\ exitCode \in {-1, 0, 1}

----------------------------------------------------------------------------
\* C1 as stated: after a run without failure every discovered raster file
\* has <name><ext>, <name>.webp and <name>.avif in the outputDir of EVERY
\* entry of TASKS.
C1_InEveryOutputDir ==
  CleanRun =>
    \A d \in Files : IsRaster(d) =>
      \A t \in 1..Len(TASKS) : HasThree(t, d, FileName(d).ext)

\* C1 amended: after a run without failure every discovered raster file has
\* <name><lower-cased ext>, <name>.webp and <name>.avif in the outputDir of
\* the task that discovered it.
C1_InOwnOutputDir ==
  CleanRun =>
    \A d \in Files : IsRaster(d) =>
      HasThree(d.task, d, ToLowerCase(FileName(d).ext))

C1_Witness ==
  /\ CleanRun
  /\ \E d \in Files : IsRaster(d) /\ Len(RelOf(d)) > 1 /\ Len(WritesOf(d)) = 3

----------------------------------------------------------------------------
\* what C2 allows as the last component of a file written for d
NamesAsStated(d) ==
  IF IsRaster(d)
  THEN {FileName(d), C(FileName(d).name, ".webp"), C(FileName(d).name, ".avif")}
  ELSE {FileName(d)}

NamesLowered(d) ==
  IF IsRaster(d)
  THEN {C(FileName(d).name, ToLowerCase(FileName(d).ext)),
        C(FileName(d).name, ".webp"), C(FileName(d).name, ".avif")}
  ELSE {FileName(d)}

----------------------------------------------------------------------------
\* C3: a verbatim file whose copy succeeded has, from then on and at the end
\* of the run, a byte-identical copy at outputDir/<relative path>, and the
\* input file is unchanged.
C3_CopyIdentical ==
  \A d \in Files :
    (\E l \in LineOf(d) : l.kind = "copied") =>
      /\ IsFile(fs, TASKS[d.task].outputDir \o RelOf(d))
      /\ fs[TASKS[d.task].outputDir \o RelOf(d)].data = input[d.path].data
      /\ fs[d.path] = input[d.path]

C3_Witness ==
  /\ pc = "done"
  /\ \E d \in Files : \E l \in LineOf(d) : l.kind = "copied"
  /\ \E d \in Files : \E l \in LineOf(d) : l.kind = "optimized"

----------------------------------------------------------------------------
\* C4: every discovered file is counted by exactly one increment of exactly
\* one counter, in discovery order: processed once for a raster file with
\* three encodes, errors once for a file with a failing step, copied once
\* for a copied file; when the run ends processed + copied + errors is the
\* number of discovered files.
C4_OneCountPerFile ==
  /\ Len(Handled) <= Len(discovered)
  /\ \A i \in 1..Len(Handled) :
       /\ Handled[i].path = discovered[i].path
       /\ Handled[i].kind = "optimized" <=>
            (IsRaster(discovered[i]) /\ Len(WritesOf(discovered[i])) = 3)
       /\ Handled[i].kind = "copied" <=>
            (~IsRaster(discovered[i]) /\ Len(WritesOf(discovered[i])) = 1)
  /\ totalStats.processed = CountKind("optimized")
  /\ totalStats.copied = CountKind("copied")
  /\ totalStats.errors = CountKind("error")
  /\ Ended =>
       totalStats.processed + totalStats.copied + totalStats.errors = Len(discovered)

C4_Witness ==
  /\ pc = "done"
  /\ totalStats.processed = 1
  /\ totalStats.errors = 1
  /\ Handled[1].kind = "error"

----------------------------------------------------------------------------
Missing == pc = "loop" /\ taskIdx <= Len(TASKS) /\ ~ExistsSync(fs, TASKS[taskIdx].inputDir)

Visited(t) ==
  \E i \in 1..Len(console) :
    console[i].kind \in {"skip", "task"} /\ console[i].path = TASKS[t].inputDir

\* C5: a task whose inputDir does not exist is skipped: the step changes no
\* counter, creates no file or directory, and leaves the loop at the next
\* task; a run that reaches the report has visited every task.
C5_SkipMissing ==
  /\ [][Missing =>
          /\ totalStats' = totalStats
          /\ fs' = fs
          /\ writes' = writes
          /\ discovered' = discovered
          /\ exitCode' = exitCode
          /\ pc' = "loop"
          /\ taskIdx' = taskIdx + 1]_vars
  /\ [](pc = "done" => \A t \in 1..Len(TASKS) : Visited(t))

C5_Witness ==
  /\ pc = "done"
  /\ \E i \in 1..Len(console) : console[i].kind = "skip" /\ console[i].path = TASKS[1].inputDir
  /\ \E i \in 1..Len(console) : console[i].kind = "task" /\ console[i].path = TASKS[2].inputDir
  /\ totalStats.processed > 0
  /\ ~ExistsSync(fs, TASKS[1].outputDir)

----------------------------------------------------------------------------
\* C6: no error is fatal: the run never ends otherwise than by the report
\* with exit code 0, after visiting every task.
C6_NoFatalError ==
  (Ended \/ exitCode # -1) =>
    /\ pc = "done"
    /\ exitCode = 0
    /\ \A t \in 1..Len(TASKS) : Visited(t)

----------------------------------------------------------------------------
\* C7: a second run on unchanged inputs leaves the file system as the first
\* run left it and reports the same Stats (and prints the same lines).
C7_Idempotent ==
  (run >= 2 /\ Ended) =>
    /\ fs = prevFs
    /\ totalStats = prevStats
    /\ console = prevConsole

C7_Witness ==
  /\ run = 2
  /\ pc = "done"
  /\ totalStats.processed > 0
  /\ totalStats.errors > 0
  /\ fs # input

----------------------------------------------------------------------------
EncodeOrder == <<"original", "webp", "avif">>

\* C8: the files written for one raster file are a prefix of
\* [<name><ext>, <name>.webp, <name>.avif] in that order; a file counted in
\* processed has all three, a file counted in errors has a proper prefix.
C8_PrefixOfEncodes ==
  \A d \in Files : IsRaster(d) =>
    /\ Len(FmtsOf(d)) <= 3
    /\ FmtsOf(d) = SubSeq(EncodeOrder, 1, Len(FmtsOf(d)))
    /\ \A l \in LineOf(d) :
         /\ l.kind = "optimized" => Len(FmtsOf(d)) = 3
         /\ l.kind = "error" => Len(FmtsOf(d)) < 3

C8_Witness ==
  \E d \in Files :
    /\ IsRaster(d)
    /\ \E l \in LineOf(d) : l.kind = "error"
    /\ FmtsOf(d) = <<"original", "webp">>
    /\ IsFile(fs, DirIn(d.task, d) \o <<C(FileName(d).name, ".webp")>>)
    /\ ~ExistsSync(fs, DirIn(d.task, d) \o <<C(FileName(d).name, ".avif")>>)

----------------------------------------------------------------------------
IndexOf(w) == CHOOSE i \in 1..Len(discovered) :
                discovered[i].task = w.task /\ discovered[i].path = w.src

\* C9: files are handled one after the other in discovery order, task after
\* task, the raster files of a task before its verbatim files; a file is
\* written only when every file before it has been counted; the report
\* comes last, after every task.
C9_Sequential ==
  /\ Len(Handled) <= Len(discovered)
  /\ \A i \in 1..Len(Handled) : Handled[i].path = discovered[i].path
  /\ \A i \in 1..Len(writes) :
       /\ \E k \in 1..Len(discovered) :
            discovered[k].task = writes[i].task /\ discovered[k].path = writes[i].src
       /\ IndexOf(writes[i]) <= Len(Handled) + 1
       /\ \A j \in 1..i : IndexOf(writes[j]) <= IndexOf(writes[i])
  /\ \A i \in 1..Len(discovered) : \A j \in 1..i :
       /\ discovered[j].task <= discovered[i].task
       /\ (discovered[j].task = discovered[i].task /\ IsRaster(discovered[i]))
            => IsRaster(discovered[j])
  /\ pc \in {"original", "webp", "avif"} =>
       (fileIdx <= Len(rasterImages) /\ rasterImages[fileIdx] = discovered[Len(Handled) + 1].path)
  /\ \A i \in 1..Len(console) : console[i].kind = "report" =>
       /\ i = Len(console)
       /\ Len(Handled) = Len(discovered)
       /\ \A t \in 1..Len(TASKS) : Visited(t)

C9_Witness ==
  /\ pc = "done"
  /\ \E i \in 1..Len(discovered) : \E j \in 1..Len(discovered) :
       /\ discovered[i].task = 1 /\ ~IsRaster(discovered[i])
       /\ discovered[j].task = 2 /\ IsRaster(discovered[j])
       /\ Len(WritesOf(discovered[i])) = 1
       /\ Len(WritesOf(discovered[j])) = 3

----------------------------------------------------------------------------
\* C10: no output path is written more than once in a run.
C10_NoOutputWrittenTwice ==
  \A i \in 1..Len(writes) : \A j \in 1..Len(writes) :
    i # j => writes[i].out # writes[j].out
====
